---- MODULE Spec2Model ----
(***************************************************************************)
(* A model of the DFA engine `M` of src/src/lib.rs: the transition table   *)
(* `delta`, the accepting set `f`, the current position `state` and the    *)
(* undo stack `previous_states`, with one action per public method.        *)
(***************************************************************************)
EXTENDS Integers, Sequences, FiniteSets, TLC

\* ------------------------------------------------------------------ bounds

\* Longest list of (state, input, next_state) triples handed to M::new.
MaxTriples == 2
\* Longest list of accepting states handed to M::new.
MaxAccept == 1
\* Most calls of M::next between two resets (caps the growth of the stack).
MaxCalls == 3
\* Longest input string, other than those of the tests, handed to a caller.
MaxInput == 3
\* Most engines, other than in the tests, handed to the longest-match procedure.
MaxEngines == 2

\* State identifiers (usize) and input symbols (char) the triples are drawn from.
States == {0, 1}
Symbols == {"a", "b"}

Triples == States \X Symbols \X States
TripleLists == UNION {[1..n -> Triples] : n \in 0..MaxTriples}
AcceptLists == UNION {[1..n -> States] : n \in 0..MaxAccept}

\* ------------------------------------------------------------- MaybeState

State(s) == [tag |-> "State", s |-> s]
Trap == [tag |-> "Trap"]

\* ------------------------------------------------------------------ state

VARIABLES
    flat_delta,       \* argument of M::new: the list of triples
    flat_f,           \* argument of M::new: the list of accepting states
    delta,            \* M.delta : BTreeMap<(usize, char), Vec<usize>>
    f,                \* M.f : BTreeSet<usize>
    state,            \* M.state : MaybeState
    previous_states,  \* M.previous_states : Vec<MaybeState>
    op,               \* the method called last
    input,            \* its argument (the char of M::next), "-" when it has none
    ret,              \* its boolean result (FALSE for a method that returns ())
    panicked,         \* TRUE iff the last call ended in the assert_eq! panic
    pre,              \* state and previous_states as they were when it was called
    n_next,           \* calls of M::next since construction or the last reset
    n_rollback,       \* calls of M::rollback that found the stack non-empty, likewise
    sym,              \* the caller of SpecSym: its sequence of k steps and k rollbacks
    det,              \* the caller of SpecDet: the input of its first run, and where
                      \* its second run is
    ev,               \* the caller of SpecEval: eval_string over a list of inputs
    lex               \* the caller of SpecLex: the longest-match procedure of the tests

counters == <<n_next, n_rollback>>
vars == <<flat_delta, flat_f, delta, f, state, previous_states,
          op, input, ret, panicked, pre, n_next, n_rollback, sym, det, ev, lex>>

\* ----------------------------------------------------------- construction

\* delta.entry((state, input)).or_insert(vec![])
OrInsertEmpty(d, k) ==
    IF k \in DOMAIN d THEN d ELSE d @@ (k :> <<>>)

\* (variant: the destination replaces what the key held)
EntryPush_overwrite(d, t) ==
    LET k == <<t[1], t[2]>> IN
    [OrInsertEmpty(d, k) EXCEPT ![k] = <<t[3]>>]

\* delta.entry((state, input)).or_insert(vec![]).push(next_state)
EntryPush(d, t) ==
    LET k == <<t[1], t[2]>> IN
    [OrInsertEmpty(d, k) EXCEPT ![k] = Append(@, t[3])]

\* for &(state, input, next_state) in flat_delta.iter() { ... }, the passes of
\* the loop over the triples lo..hi in their order, entered with the map d. The
\* passes over a range of several triples are those over its first half, then
\* those over its second half entered with the map h the first half left (the
\* bound h makes TLC finish the first half before it starts the second, which
\* keeps its evaluation of a long list shallow).
RECURSIVE LoopFrom(_, _, _, _)
LoopFrom(d, fd, lo, hi) ==
    IF lo > hi THEN d
    ELSE IF lo = hi THEN EntryPush(d, fd[lo])
    ELSE LET mid == (lo + hi) \div 2 IN
         CHOOSE r \in {LoopFrom(h, fd, mid + 1, hi) :
                           h \in {LoopFrom(d, fd, lo, mid)}} : TRUE

\* The loop of M::new over the first n triples of the list.
BuildDelta(fd, n) == LoopFrom(<<>>, fd, 1, n)

\* flat_f.iter().cloned().collect() into a BTreeSet
CollectF(ff) == {ff[i] : i \in 1..Len(ff)}

\* The struct M::new returns.
M_new(fd, ff) ==
    [delta |-> BuildDelta(fd, Len(fd)),
     f |-> CollectF(ff),
     state |-> State(0),
     previous_states |-> <<>>]

\* ---------------------------------------------------------------- queries

\* (variant: a trapped engine reports acceptance whenever some state accepts)
is_accepted_trap_accepts(st, acc) ==
    IF st.tag = "Trap" THEN acc # {} ELSE st.s \in acc

\* M::is_accepted
is_accepted(st, acc) ==
    IF st.tag = "Trap" THEN FALSE ELSE st.s \in acc

\* M::is_trapped
is_trapped(st) ==
    IF st.tag = "Trap" THEN TRUE ELSE FALSE

\* ------------------------------------------------------------------- next

\* (variant: a step taken while trapped returns early, without the push)
PushState_skip_trapped(ps, st) ==
    IF st.tag = "Trap" THEN ps ELSE Append(ps, st)

\* self.previous_states.push(self.state)
PushState(ps, st) == Append(ps, st)

\* (variant: only two different destinations count as ambiguous)
AssertFails_distinct_only(d, st, c) ==
    /\ st.tag = "State"
    /\ <<st.s, c>> \in DOMAIN d
    /\ \E i, j \in 1..Len(d[<<st.s, c>>]) : d[<<st.s, c>>][i] # d[<<st.s, c>>][j]

\* The assert_eq!(next_states.len(), 1, ...) of M::next fails.
AssertFails(d, st, c) ==
    /\ st.tag = "State"
    /\ <<st.s, c>> \in DOMAIN d
    /\ Len(d[<<st.s, c>>]) # 1

\* (variant: a missing entry leaves the position where it is)
NextState_stay_on_miss(d, st, c) ==
    IF st.tag = "State"
    THEN IF <<st.s, c>> \in DOMAIN d
         THEN State(d[<<st.s, c>>][1])
         ELSE st
    ELSE st

\* (variant: a trapped engine looks the symbol up from the start state)
NextState_restart_from_trap(d, st, c) ==
    LET s == IF st.tag = "State" THEN st.s ELSE 0 IN
    IF <<s, c>> \in DOMAIN d THEN State(d[<<s, c>>][1]) ELSE Trap

\* The position M::next leaves in self.state when the assertion holds.
NextState(d, st, c) ==
    IF st.tag = "State"
    THEN IF <<st.s, c>> \in DOMAIN d
         THEN State(d[<<st.s, c>>][1])
         ELSE Trap
    ELSE st

\* ------------------------------------------------------------------- undo

\* (variant: the popped state is dropped, the current state stays)
RollbackState_noop(ps, st) == st

\* (variant: popping an empty stack yields the trap)
RollbackState_trap_on_empty(ps, st) == IF ps # <<>> THEN ps[Len(ps)] ELSE Trap

\* (variant: the oldest entry is restored instead of the newest)
RollbackState_oldest(ps, st) == IF ps # <<>> THEN ps[1] ELSE st

\* M::rollback: the position and the stack after the call.
RollbackState(ps, st) == IF ps # <<>> THEN ps[Len(ps)] ELSE st
RollbackStack(ps) == IF ps # <<>> THEN SubSeq(ps, 1, Len(ps) - 1) ELSE ps

\* (variant: reset forgets to clear the stack)
ResetStack_kept == previous_states

\* (variant: reset clears the stack and leaves the position)
ResetState_kept == state

\* M::reset: the position and the stack after the call.
ResetState == State(0)
ResetStack == <<>>

Snapshot == [state |-> state, previous_states |-> previous_states]

\* ------------------------------------------------------------ the methods

\* The engine M::new returns, before any call.
InitEngine ==
    /\ flat_delta \in TripleLists
    /\ flat_f \in AcceptLists
    /\ delta = M_new(flat_delta, flat_f).delta
    /\ f = M_new(flat_delta, flat_f).f
    /\ state = M_new(flat_delta, flat_f).state
    /\ previous_states = M_new(flat_delta, flat_f).previous_states
    /\ op = "new"
    /\ input = "-"
    /\ ret = FALSE
    /\ panicked = FALSE
    /\ pre = [state |-> State(0), previous_states |-> <<>>]
    /\ n_next = 0
    /\ n_rollback = 0

\* (variant: the push is made only once the assertion has passed)
M_next_push_after_assert(c) ==
    /\ n_next < MaxCalls
    /\ IF AssertFails(delta, state, c)
       THEN /\ panicked' = TRUE
            /\ state' = state
            /\ previous_states' = previous_states
            /\ ret' = FALSE
       ELSE /\ panicked' = FALSE
            /\ state' = NextState(delta, state, c)
            /\ previous_states' = PushState(previous_states, state)
            /\ ret' = is_accepted(NextState(delta, state, c), f)
    /\ op' = "next"
    /\ input' = c
    /\ pre' = Snapshot
    /\ n_next' = n_next + 1
    /\ UNCHANGED <<flat_delta, flat_f, delta, f, n_rollback>>

\* M::next(input). The push comes first; a failed assertion unwinds with the
\* push done and self.state not yet assigned.
M_next(c) ==
    /\ n_next < MaxCalls
    /\ previous_states' = PushState(previous_states, state)
    /\ IF AssertFails(delta, state, c)
       THEN /\ panicked' = TRUE
            /\ state' = state
            /\ ret' = FALSE
       ELSE /\ panicked' = FALSE
            /\ state' = NextState(delta, state, c)
            /\ ret' = is_accepted(NextState(delta, state, c), f)
    /\ op' = "next"
    /\ input' = c
    /\ pre' = Snapshot
    /\ n_next' = n_next + 1
    /\ UNCHANGED <<flat_delta, flat_f, delta, f, n_rollback>>

\* M::rollback()
M_rollback ==
    /\ state' = RollbackState(previous_states, state)
    /\ previous_states' = RollbackStack(previous_states)
    /\ op' = "rollback"
    /\ input' = "-"
    /\ ret' = FALSE
    /\ panicked' = FALSE
    /\ pre' = Snapshot
    /\ n_rollback' = IF previous_states # <<>> THEN n_rollback + 1 ELSE n_rollback
    /\ UNCHANGED <<flat_delta, flat_f, delta, f, n_next>>

\* (variant: the query records the position it looked at on the stack)
M_is_accepted_recording ==
    /\ op' = "is_accepted"
    /\ input' = "-"
    /\ ret' = is_accepted(state, f)
    /\ panicked' = FALSE
    /\ pre' = Snapshot
    /\ previous_states' = Append(previous_states, state)
    /\ UNCHANGED <<flat_delta, flat_f, delta, f, state, counters>>

\* M::is_accepted()
M_is_accepted ==
    /\ op' = "is_accepted"
    /\ input' = "-"
    /\ ret' = is_accepted(state, f)
    /\ panicked' = FALSE
    /\ pre' = Snapshot
    /\ UNCHANGED <<flat_delta, flat_f, delta, f, state, previous_states, counters>>

\* M::is_trapped()
M_is_trapped ==
    /\ op' = "is_trapped"
    /\ input' = "-"
    /\ ret' = is_trapped(state)
    /\ panicked' = FALSE
    /\ pre' = Snapshot
    /\ UNCHANGED <<flat_delta, flat_f, delta, f, state, previous_states, counters>>

\* M::reset()
M_reset ==
    /\ state' = ResetState
    /\ previous_states' = ResetStack
    /\ op' = "reset"
    /\ input' = "-"
    /\ ret' = FALSE
    /\ panicked' = FALSE
    /\ pre' = Snapshot
    /\ n_next' = 0
    /\ n_rollback' = 0
    /\ UNCHANGED <<flat_delta, flat_f, delta, f>>

\* ------------------------------------------- Spec: any caller of one engine

\* What the callers of SpecSym and SpecDet keep, for a caller that is neither.
SymOff ==
    [phase |-> "off", base |-> [state |-> State(0), previous_states |-> <<>>],
     k |-> 0, rem |-> 0, kinds |-> {}]
DetOff == [run |-> "off", tape |-> <<>>, trace |-> <<>>, pos |-> 0]
EvOff ==
    [test |-> "off", fd |-> <<>>, ff |-> <<>>, m |-> M_new(<<>>, <<>>),
     inputs |-> <<>>, i |-> 0, j |-> 0, results |-> <<>>, pc |-> "off"]
LexOff ==
    [test |-> "off", defs |-> <<>>, types |-> <<>>, no_match |-> "NO_MATCH",
     driver |-> FALSE, source |-> <<>>, last_lexed |-> 0, calls |-> 0,
     s |-> <<>>, n |-> 0, patterns |-> <<>>, lexeme |-> <<>>,
     was_accepted |-> FALSE, category |-> "NO_MATCH", passes |-> 0, pc |-> "off"]

Init ==
    /\ InitEngine
    /\ sym = SymOff
    /\ det = DetOff
    /\ ev = EvOff
    /\ lex = LexOff

Call_next(c) == M_next(c) /\ UNCHANGED <<sym, det, ev, lex>>
Call_rollback == M_rollback /\ UNCHANGED <<sym, det, ev, lex>>
Call_is_accepted == M_is_accepted /\ UNCHANGED <<sym, det, ev, lex>>
Call_is_trapped == M_is_trapped /\ UNCHANGED <<sym, det, ev, lex>>
Call_reset == M_reset /\ UNCHANGED <<sym, det, ev, lex>>

Next ==
    \/ \E c \in Symbols : Call_next(c)
    \/ Call_rollback
    \/ Call_is_accepted
    \/ Call_is_trapped
    \/ Call_reset

Spec == Init /\ [][Next]_vars

\* ------------------ SpecSym: a caller that takes k steps and then k rollbacks

\* What a call of next did to the position.
StepKind(before, after) ==
    IF before.tag = "Trap" THEN "noop"
    ELSE IF after.tag = "Trap" THEN "trapped"
    ELSE IF after = before THEN "stayed"
    ELSE "moved"

SymIdle == [sym EXCEPT !.phase = "idle", !.k = 0, !.rem = 0, !.kinds = {}]

InitSym ==
    /\ InitEngine
    /\ sym = [SymOff EXCEPT !.phase = "idle"]
    /\ det = DetOff
    /\ ev = EvOff
    /\ lex = LexOff

\* A call of next: outside a measured sequence it may start one (the engine as
\* it is now becomes the base); inside the forward part it extends it; a call
\* that panics, or one made after the rollbacks began, ends the measurement.
Sym_next(c) ==
    /\ M_next(c)
    /\ UNCHANGED <<det, ev, lex>>
    /\ IF panicked' \/ sym.phase = "back"
       THEN sym' = SymIdle
       ELSE IF sym.phase = "fwd"
       THEN sym' = [sym EXCEPT !.k = @ + 1,
                               !.kinds = @ \cup {StepKind(state, state')}]
       ELSE \E start \in BOOLEAN :
               sym' = IF start
                      THEN [phase |-> "fwd", base |-> Snapshot, k |-> 1, rem |-> 0,
                            kinds |-> {StepKind(state, state')}]
                      ELSE sym

\* A call of rollback: the first one after the k steps begins the backward
\* part, each one counts down the rollbacks still owed.
Sym_rollback ==
    /\ M_rollback
    /\ UNCHANGED <<det, ev, lex>>
    /\ IF sym.phase = "fwd"
       THEN sym' = [sym EXCEPT !.phase = "back", !.rem = sym.k - 1]
       ELSE IF sym.phase = "back" /\ sym.rem > 0
       THEN sym' = [sym EXCEPT !.rem = @ - 1]
       ELSE sym' = SymIdle

Sym_reset ==
    /\ M_reset
    /\ UNCHANGED <<det, ev, lex>>
    /\ sym' = SymIdle

NextSym ==
    \/ \E c \in Symbols : Sym_next(c)
    \/ Sym_rollback
    \/ Sym_reset

SpecSym == InitSym /\ [][NextSym]_vars

\* ------------- SpecDet: a caller that runs one input twice, reset in between

\* No key of the table was given more than one triple.
WellFormed ==
    \A i, j \in 1..Len(flat_delta) :
        (flat_delta[i][1] = flat_delta[j][1] /\ flat_delta[i][2] = flat_delta[j][2])
            => i = j

\* What a run observes after a step.
Observed == [state |-> state, ret |-> ret, previous_states |-> previous_states]

InitDet ==
    /\ InitEngine
    /\ sym = SymOff
    /\ det = [run |-> "first", tape |-> <<>>, trace |-> <<>>, pos |-> 0]
    /\ ev = EvOff
    /\ lex = LexOff

\* First run: a step on any symbol; the symbol and what was observed are kept.
Det_next(c) ==
    /\ det.run = "first"
    /\ M_next(c)
    /\ det' = [det EXCEPT !.tape = Append(@, c), !.trace = Append(@, Observed')]
    /\ UNCHANGED <<sym, ev, lex>>

\* The reset between the two runs.
Det_reset ==
    /\ det.run = "first"
    /\ M_reset
    /\ det' = [det EXCEPT !.run = "second"]
    /\ UNCHANGED <<sym, ev, lex>>

\* Second run: a step on the next symbol of the same input.
Det_replay ==
    /\ det.run = "second"
    /\ det.pos < Len(det.tape)
    /\ M_next(det.tape[det.pos + 1])
    /\ det' = [det EXCEPT !.pos = @ + 1]
    /\ UNCHANGED <<sym, ev, lex>>

NextDet ==
    \/ \E c \in Symbols : Det_next(c)
    \/ Det_reset
    \/ Det_replay

SpecDet == InitDet /\ [][NextDet]_vars

\* ------------- SpecNew: any caller, with longer lists of accepting states

AcceptListsNew == UNION {[1..n -> States] : n \in 0..(MaxAccept + 1)}

InitNew ==
    /\ flat_delta \in TripleLists
    /\ flat_f \in AcceptListsNew
    /\ delta = M_new(flat_delta, flat_f).delta
    /\ f = M_new(flat_delta, flat_f).f
    /\ state = M_new(flat_delta, flat_f).state
    /\ previous_states = M_new(flat_delta, flat_f).previous_states
    /\ op = "new"
    /\ input = "-"
    /\ ret = FALSE
    /\ panicked = FALSE
    /\ pre = [state |-> State(0), previous_states |-> <<>>]
    /\ n_next = 0
    /\ n_rollback = 0
    /\ sym = SymOff
    /\ det = DetOff
    /\ ev = EvOff
    /\ lex = LexOff

SpecNew == InitNew /\ [][Next]_vars

\* ------------------- SpecRun: a caller none of whose calls of next panics

Run_next(c) == M_next(c) /\ ~panicked' /\ UNCHANGED <<sym, det, ev, lex>>
Run_rollback == M_rollback /\ UNCHANGED <<sym, det, ev, lex>>
Run_reset == M_reset /\ UNCHANGED <<sym, det, ev, lex>>

NextRun ==
    \/ \E c \in Symbols : Run_next(c)
    \/ Run_rollback
    \/ Run_reset

SpecRun == Init /\ [][NextRun]_vars

\* ------------------------------------------ the methods, on an engine value

\* M::next on the engine e: does it panic, and the engine it leaves.
E_panics(e, c) == AssertFails(e.delta, e.state, c)
E_next(e, c) ==
    IF E_panics(e, c)
    THEN [e EXCEPT !.previous_states = PushState(@, e.state)]
    ELSE [e EXCEPT !.previous_states = PushState(@, e.state),
                   !.state = NextState(e.delta, e.state, c)]

\* M::rollback, M::reset, M::is_accepted and M::is_trapped on the engine e.
E_rollback(e) ==
    [e EXCEPT !.state = RollbackState(e.previous_states, e.state),
              !.previous_states = RollbackStack(e.previous_states)]
E_reset(e) == [e EXCEPT !.state = ResetState, !.previous_states = ResetStack]
E_is_accepted(e) == is_accepted(e.state, e.f)
E_is_trapped(e) == is_trapped(e.state)

\* The engine fields of a caller that holds its engines itself.
NoEngine ==
    /\ flat_delta = <<>>
    /\ flat_f = <<>>
    /\ InitEngine

\* --------------------------------------------------- the automata of the tests

Lowercase == <<"a", "b", "c", "d", "e", "f", "g", "h", "i", "j", "k", "l",
              "m", "n", "o", "p", "q", "r", "s", "t", "u", "v", "w", "x", "y", "z">>
Numbers == <<"0", "1", "2", "3", "4", "5", "6", "7", "8", "9">>
StringChars ==
    Lowercase \o Numbers \o <<" ", "'">>

\* (variant: chars.map(|c| (0, c, 1)), an automaton of one-char words)
FlatMapLoop_first_only(chars) == [n \in 1..Len(chars) |-> <<0, chars[n], 1>>]

\* chars.flat_map(|c| vec![(0, c, 1), (1, c, 1)])
FlatMapLoop(chars) ==
    [n \in 1..(2 * Len(chars)) |->
        IF n % 2 = 1 THEN <<0, chars[(n + 1) \div 2], 1>>
                     ELSE <<1, chars[n \div 2], 1>>]

\* The arguments of M::new in basic_functionality and rollback, in
\* alphabetic_automata, numeric_automata and string_automata, for a0 of
\* lex_two_types, and for a3..a6 of simple_lexer::lex.
basic_delta == <<<<0, "a", 0>>, <<0, "b", 1>>>>
basic_f == <<1>>
alphabetic_delta == FlatMapLoop(Lowercase)
alphabetic_f == <<1>>
numeric_delta == FlatMapLoop(Numbers)
numeric_f == <<1>>
string_delta ==
    <<<<0, "\"", 1>>, <<1, "\"", 2>>>>
        \o [n \in 1..Len(StringChars) |-> <<1, StringChars[n], 1>>]
string_f == <<2>>
if_delta == <<<<0, "i", 1>>, <<1, "f", 2>>>>
if_f == <<2>>
SingleChar(c) == <<<<0, c, 1>>>>
single_f == <<1>>

\* No key of the list is given more than one triple.
NoAmbiguousKey(fd) ==
    \A a, b \in 1..Len(fd) : (fd[a][1] = fd[b][1] /\ fd[a][2] = fd[b][2]) => a = b

\* The input strings of at most n symbols.
Strings(n) == UNION {[1..k -> Symbols] : k \in 0..n}

\* -------------- SpecEval: eval_string over a list of inputs, reset in between

\* The runs of the tests: the automaton and the inputs of each.
EvalTests ==
    {[test |-> "basic_functionality", fd |-> basic_delta, ff |-> basic_f,
      inputs |-> <<<<"a", "a", "a", "a", "a", "a", "b">>, <<"a", "b", "b">>>>],
     [test |-> "alphabetic_automata_test", fd |-> alphabetic_delta, ff |-> alphabetic_f,
      inputs |-> <<<<"a", "a", "a", "a", "a", "a", "b">>,
                   <<"l", "k", "j", "a", "s", "d", "l", "k", "j", "e", "h", "a", "s", "d", "l",
                   "j", "h", "a", "s", "d", "l", "j", "h", "a", "s", "k", "d", "j", "h">>,
                   <<"h", "e", "l", "l", "o">>,
                   <<"w", "o", "r", "l", "d">>>>],
     [test |-> "string_automata_test", fd |-> string_delta, ff |-> string_f,
      inputs |-> <<<<"\"", "a", "a", "a", "a", "a", "a", "b", "\"">>>>],
     [test |-> "numeric_automata_test", fd |-> numeric_delta, ff |-> numeric_f,
      inputs |-> <<<<"1", "2", "3", "4">>, <<"1", "2", "3", "4", "5", "5", "6", "7", "7">>,
                   <<"0", "1", "2", "3">>>>]}

\* The state of a run as it starts on its first input.
EnterEval(t) ==
    [test |-> t.test, fd |-> t.fd, ff |-> t.ff, m |-> M_new(t.fd, t.ff),
     inputs |-> t.inputs, i |-> 1, j |-> 0, results |-> <<>>, pc |-> "eval"]

InitEval ==
    /\ NoEngine
    /\ sym = SymOff
    /\ det = DetOff
    /\ lex = LexOff
    /\ \/ \E t \in EvalTests : ev = EnterEval(t)
       \* Any automaton without an ambiguous key, run over any two short inputs.
       \/ \E fd \in TripleLists, ff \in AcceptLists,
             w \in Strings(MaxInput), v \in Strings(1) :
             /\ NoAmbiguousKey(fd)
             /\ ev = EnterEval([test |-> "any", fd |-> fd, ff |-> ff,
                                inputs |-> <<w, v>>])

\* eval_string: m.next(c) for the next char of the current input.
Eval_next ==
    /\ ev.pc = "eval"
    /\ ev.j < Len(ev.inputs[ev.i])
    /\ LET c == ev.inputs[ev.i][ev.j + 1] IN
       ev' = [ev EXCEPT !.m = E_next(@, c),
                        !.j = @ + 1,
                        !.pc = IF E_panics(ev.m, c) THEN "panicked" ELSE "eval"]
    /\ UNCHANGED <<flat_delta, flat_f, delta, f, state, previous_states,
                   op, input, ret, panicked, pre, counters, sym, det, lex>>

\* The input is consumed: the test reads is_accepted() and calls reset(), then
\* goes on to its next input.
Eval_reset ==
    /\ ev.pc = "eval"
    /\ ev.j = Len(ev.inputs[ev.i])
    /\ ev' = [ev EXCEPT !.results = Append(@, E_is_accepted(ev.m)),
                        !.m = E_reset(@),
                        !.i = IF ev.i < Len(ev.inputs) THEN @ + 1 ELSE @,
                        !.j = 0,
                        !.pc = IF ev.i < Len(ev.inputs) THEN "eval" ELSE "done"]
    /\ UNCHANGED <<flat_delta, flat_f, delta, f, state, previous_states,
                   op, input, ret, panicked, pre, counters, sym, det, lex>>

NextEval ==
    \/ Eval_next
    \/ Eval_reset

SpecEval == InitEval /\ [][NextEval]_vars

\* ------------- SpecLex: the longest-match procedure of the tests, and the
\* ------------- loop of simple_lexer that calls it until the source is consumed

\* The arguments of M::new for one engine.
Def(fd, ff) == [fd |-> fd, ff |-> ff]

\* [a0, ..., a6] and types of simple_lexer::lex.
simple_lexer_defs ==
    <<Def(alphabetic_delta, alphabetic_f), Def(numeric_delta, numeric_f),
      Def(string_delta, string_f), Def(SingleChar("("), single_f),
      Def(SingleChar(")"), single_f), Def(SingleChar(" "), single_f),
      Def(SingleChar(">"), single_f)>>
simple_lexer_types ==
    <<"ID", "NUMBER", "STRING", "PAROPEN", "PARCLOSE", "SPACE", "OPREL">>

\* The runs of the tests: rollback, lex_two_types, the three single calls of
\* lex in simple_lexer, and its loop over source.
LexTests ==
    {[test |-> "rollback", defs |-> <<Def(basic_delta, basic_f)>>,
      types |-> <<"MATCH">>, no_match |-> "NO MATCH", driver |-> FALSE,
      source |-> <<"a", "a", "a", "b", "b">>],
     [test |-> "lex_two_types",
      defs |-> <<Def(if_delta, if_f), Def(alphabetic_delta, alphabetic_f)>>,
      types |-> <<"IF", "ID">>, no_match |-> "NO MATCH", driver |-> FALSE,
      source |-> <<"i", "f", "a">>],
     [test |-> "simple_lexer_1", defs |-> simple_lexer_defs,
      types |-> simple_lexer_types, no_match |-> "NO_MATCH", driver |-> FALSE,
      source |-> <<"h", "e", "l", "l", "o", "w", " ", "x", " ", "y">>],
     [test |-> "simple_lexer_2", defs |-> simple_lexer_defs,
      types |-> simple_lexer_types, no_match |-> "NO_MATCH", driver |-> FALSE,
      source |-> <<"(", "h", "e", "l", "l", "o", "w">>],
     [test |-> "simple_lexer_3", defs |-> simple_lexer_defs,
      types |-> simple_lexer_types, no_match |-> "NO_MATCH", driver |-> FALSE,
      source |-> <<"1", "2", "3", "4", "5", "6", "7", "8", "9", " ", "x">>],
     [test |-> "simple_lexer", defs |-> simple_lexer_defs,
      types |-> simple_lexer_types, no_match |-> "NO_MATCH", driver |-> TRUE,
      source |-> <<"(", "d", "e", "f", "i", "n", "e", " ", "(", "m", "y", "f",
                 "n", " ", "x", " ", "y", ")", " ", "(", "i", "f", " ", "(",
                 ">", " ", "x", " ", "y", ")", " ", "x", " ", "y", ")", ")">>]}

\* Other callers hold up to MaxEngines engines, in any order, and lex short
\* strings of the chars of LexChars. Their engines are the automaton of
\* rollback, a0 of lex_two_types, a3 of simple_lexer::lex (which none of these
\* strings moves), and the automaton alphabetic_automata builds, over the
\* letters of LexChars instead of a..z.
LexChars == {"i", "f", "a", "b"}
LexLetters == <<"a", "b", "f", "i">>
LexPool ==
    {Def(basic_delta, basic_f), Def(if_delta, if_f),
     Def(FlatMapLoop(LexLetters), alphabetic_f), Def(SingleChar("("), single_f)}
PositionNames == <<"P1", "P2", "P3", "P4", "P5", "P6", "P7">>

\* A caller of the loop of simple_lexer (whose first call, if the source is not
\* empty, is lex on the whole source) with the engines ds and the source w.
AnyLexer(ds, w) ==
    [test |-> "any", defs |-> ds, types |-> SubSeq(PositionNames, 1, Len(ds)),
     no_match |-> "NO_MATCH", driver |-> TRUE, source |-> w]

\* let a0 = ...; let mut patterns = [a0, ...]
NewPatterns(defs) == [k \in 1..Len(defs) |-> M_new(defs[k].fd, defs[k].ff)]

\* The state of a call lex(s) as it enters its forward loop.
EnterLex(t, consumed, calls, s) ==
    [test |-> t.test, defs |-> t.defs, types |-> t.types, no_match |-> t.no_match,
     driver |-> t.driver, source |-> t.source, last_lexed |-> consumed,
     calls |-> calls, s |-> s, n |-> 0, patterns |-> NewPatterns(t.defs),
     lexeme |-> <<>>, was_accepted |-> FALSE, category |-> t.no_match,
     passes |-> 0, pc |-> IF s = <<>> THEN "decide" ELSE "forward"]

\* The state a caller starts in. The loop of simple_lexer tests last_lexed >=
\* source.len() before its first call of lex, so on an empty source it is over
\* without a call; the other callers call lex(source) whatever the source is.
StartLex(t) ==
    IF t.driver /\ t.source = <<>>
    THEN [EnterLex(t, 0, 0, <<>>) EXCEPT !.pc = "finished"]
    ELSE EnterLex(t, 0, 1, t.source)

\* The triples of fd are listed by increasing key, each key once, and the
\* states of ff by increasing number, each once. M::new builds the same engine
\* from a list with another order of its keys or of its accepting states.
KeyRank(t) == 2 * t[1] + (IF t[2] = "a" THEN 0 ELSE 1)
ListedInOrder(fd, ff) ==
    /\ \A a, b \in 1..Len(fd) : a < b => KeyRank(fd[a]) < KeyRank(fd[b])
    /\ \A a, b \in 1..Len(ff) : a < b => ff[a] < ff[b]

\* The engines of ds are different automata.
Distinct(ds) == \A a, b \in 1..Len(ds) : ds[a] = ds[b] => a = b

InitLex ==
    /\ NoEngine
    /\ sym = SymOff
    /\ det = DetOff
    /\ ev = EvOff
    /\ \/ \E t \in LexTests : lex = StartLex(t)
       \/ \E ds \in UNION {[1..k -> LexPool] : k \in 1..MaxEngines},
             w \in UNION {[1..k -> LexChars] : k \in 0..MaxInput} :
             /\ Distinct(ds)
             /\ lex = StartLex(AnyLexer(ds, w))
       \* Or one automaton, any that has no ambiguous key, and a short string.
       \/ \E fd \in TripleLists, ff \in AcceptLists, w \in Strings(MaxInput) :
             /\ ListedInOrder(fd, ff)
             /\ lex = StartLex(AnyLexer(<<Def(fd, ff)>>, w))

\* for p in patterns.iter_mut() { p.next(c); if p.is_accepted() {...};
\* trapped = trapped && p.is_trapped(); }, from the engine at index k on. A
\* panic of p.next leaves the loop with the engines after p untouched.
RECURSIVE FeedLoop(_, _, _)
FeedLoop(r, c, k) ==
    IF k > Len(r.patterns) THEN r
    ELSE IF E_panics(r.patterns[k], c)
    THEN [r EXCEPT !.patterns[k] = E_next(@, c), !.panicked = TRUE]
    ELSE \* (q is r after the pass of the engine at k; binding it makes TLC
         \* compute it once)
         CHOOSE out \in
             {FeedLoop(q, c, k + 1) :
                 q \in {[r EXCEPT
                           !.patterns[k] = E_next(@, c),
                           !.was_accepted = @ \/ E_is_accepted(E_next(r.patterns[k], c)),
                           !.trapped = @ /\ E_is_trapped(E_next(r.patterns[k], c))]}} :
             TRUE

\* One pass of the forward loop: lexeme.push(c), the loop over the engines,
\* and the break when all of them are trapped.
Lex_feed ==
    /\ lex.pc = "forward"
    /\ lex.n < Len(lex.s)
    /\ LET c == lex.s[lex.n + 1]
           r == FeedLoop([patterns |-> lex.patterns,
                          was_accepted |-> lex.was_accepted,
                          trapped |-> TRUE, panicked |-> FALSE], c, 1)
       IN lex' = [lex EXCEPT !.lexeme = Append(@, c),
                             !.n = @ + 1,
                             !.patterns = r.patterns,
                             !.was_accepted = r.was_accepted,
                             !.pc = IF r.panicked THEN "panicked"
                                    ELSE IF r.trapped \/ lex.n + 1 = Len(lex.s)
                                    THEN "decide" ELSE "forward"]
    /\ UNCHANGED <<flat_delta, flat_f, delta, f, state, previous_states,
                   op, input, ret, panicked, pre, counters, sym, det, ev>>

\* if was_accepted { loop ... } else { lexeme = String::new(); }
Lex_decide ==
    /\ lex.pc = "decide"
    /\ lex' = IF lex.was_accepted
              THEN [lex EXCEPT !.pc = "rollback"]
              ELSE [lex EXCEPT !.lexeme = <<>>, !.pc = "return"]
    /\ UNCHANGED <<flat_delta, flat_f, delta, f, state, previous_states,
                   op, input, ret, panicked, pre, counters, sym, det, ev>>

\* for (i, p) in patterns.iter_mut().enumerate() { if p.is_accepted()
\* { end = true; category = types[i]; } else { p.rollback(); } }, from index k.
RECURSIVE PassLoop(_, _, _)
PassLoop(r, types, k) ==
    IF k > Len(r.patterns) THEN r
    ELSE CHOOSE out \in
             {PassLoop(q, types, k + 1) :
                 q \in {IF E_is_accepted(r.patterns[k])
                        THEN [r EXCEPT !.end = TRUE, !.category = types[k]]
                        ELSE [r EXCEPT !.patterns[k] = E_rollback(@)]}} :
             TRUE

\* (variant: the lexeme keeps its last char)
PopChar_keep(w) == w

\* String::pop, which leaves an empty string empty.
PopChar(w) == IF w = <<>> THEN w ELSE SubSeq(w, 1, Len(w) - 1)

\* One pass of the rollback loop: the loop over the engines, then the break
\* if one of them was accepted, else lexeme.pop().
Lex_pass ==
    /\ lex.pc = "rollback"
    \* (passes only counts; the bound keeps the counter finite in a model whose
    \* loop would not end, and C17 states that it is never reached)
    /\ lex.passes <= Len(lex.s)
    /\ LET r == PassLoop([patterns |-> lex.patterns, end |-> FALSE,
                          category |-> lex.category], lex.types, 1)
       IN lex' = [lex EXCEPT !.patterns = r.patterns,
                             !.category = r.category,
                             !.passes = @ + 1,
                             !.lexeme = IF r.end THEN @ ELSE PopChar(@),
                             !.pc = IF r.end THEN "return" ELSE "rollback"]
    /\ UNCHANGED <<flat_delta, flat_f, delta, f, state, previous_states,
                   op, input, ret, panicked, pre, counters, sym, det, ev>>

\* The loop of simple_lexer after a call of lex has returned: last_lexed +=
\* lexeme.len(); panic on NO_MATCH; stop at the end of the source, else call
\* lex(&source[last_lexed..]), which builds its engines anew.
Lex_drive ==
    /\ lex.pc = "return"
    /\ lex.driver
    /\ LET consumed == lex.last_lexed + Len(lex.lexeme) IN
       lex' = IF lex.category = lex.no_match
              THEN [lex EXCEPT !.last_lexed = consumed, !.pc = "error"]
              ELSE IF consumed >= Len(lex.source)
              THEN [lex EXCEPT !.last_lexed = consumed, !.pc = "finished"]
              ELSE EnterLex(lex, consumed, lex.calls + 1,
                            SubSeq(lex.source, consumed + 1, Len(lex.source)))
    /\ UNCHANGED <<flat_delta, flat_f, delta, f, state, previous_states,
                   op, input, ret, panicked, pre, counters, sym, det, ev>>

NextLex ==
    \/ Lex_feed
    \/ Lex_decide
    \/ Lex_pass
    \/ Lex_drive

SpecLex == InitLex /\ [][NextLex]_vars

\* The same caller, which does not stop while it has a step to take.
SpecLexLive == InitLex /\ [][NextLex]_vars /\ WF_vars(NextLex)

\* ------------------------------------------------------ what the claims use

\* The indices of the triples handed to M::new whose key is (s, c).
TriplesFor(s, c) ==
    {i \in 1..Len(flat_delta) : flat_delta[i][1] = s /\ flat_delta[i][2] = c}

\* s occurs in the list of accepting states handed to M::new.
Listed(s) == \E i \in 1..Len(flat_f) : flat_f[i] = s

\* The last call was a call of M::next that returned.
Stepped == op = "next" /\ ~panicked

\* ----------------------------------------------------------------- claims

\* C1: a call of M::next that returns moves Live(s) to Live(d) when exactly one
\* triple with key (s, input) was given, d being its destination; moves Live(s)
\* to Trap when no triple has that key; and leaves Trap at Trap whatever the
\* table holds for the symbol.
C1_StepMoves ==
    Stepped =>
        LET p == pre.state IN
        /\ p.tag = "State" =>
              /\ \A i \in TriplesFor(p.s, input) :
                    Cardinality(TriplesFor(p.s, input)) = 1
                        => state = State(flat_delta[i][3])
              /\ TriplesFor(p.s, input) = {} => state = Trap
        /\ p.tag = "Trap" => state = Trap

\* C1 witness: three steps of one run: a move Live(0) -> Live(1), a step that
\* traps, and a step taken while trapped on a symbol the table has a key for.
C1_Witness ==
    /\ Stepped
    /\ previous_states = <<State(0), State(1), Trap>>
    /\ state = Trap
    /\ \E s \in States : TriplesFor(s, input) # {}

\* C2: a call of M::next that returns has pushed exactly one entry, the
\* position held when it was called, also when that position is Trap; and the
\* length of the stack is the number of next calls minus the number of
\* rollback calls that found it non-empty, counted since construction or the
\* last reset.
C2_OnePushPerStep ==
    /\ Stepped => previous_states = Append(pre.previous_states, pre.state)
    /\ Len(previous_states) = n_next - n_rollback

\* C2 witness: a step taken while trapped, after a rollback, has pushed Trap.
C2_Witness ==
    /\ Stepped
    /\ pre.state = Trap
    /\ n_rollback > 0
    /\ Len(previous_states) >= 2
    /\ previous_states[Len(previous_states)] = Trap

\* C3: when a caller has taken k steps that returned, on any symbols and from
\* any state the engine can be in, and then k rollbacks, the position and the
\* stack are exactly those the engine had before the first of the k steps.
C3_RollbackSymmetry ==
    (sym.phase = "back" /\ sym.rem = 0) => Snapshot = sym.base

\* C3 witness: three steps (one moved the engine, one trapped it, one was taken
\* while trapped) and then three rollbacks.
C3_Witness ==
    /\ sym.phase = "back"
    /\ sym.rem = 0
    /\ sym.k = 3
    /\ {"moved", "trapped", "noop"} \subseteq sym.kinds
    /\ Snapshot = sym.base

\* C4: M::rollback called with an empty stack does not fail and changes neither
\* the position nor the stack (so the state it leaves is again one in which a
\* rollback changes nothing).
C4_RollbackOnEmpty ==
    (op = "rollback" /\ pre.previous_states = <<>>) =>
        /\ ~panicked
        /\ state = pre.state
        /\ previous_states = <<>>

\* C4 witness: a rollback on the empty stack, after earlier rollbacks emptied it.
C4_Witness ==
    /\ op = "rollback"
    /\ pre.previous_states = <<>>
    /\ n_rollback > 0
    /\ state = pre.state

\* C5: a step that leaves a trapped engine not trapped is a call of
\* M::rollback or of M::reset; after a call of M::next (on any symbol), or of a
\* query, a trapped engine is still trapped.
C5_TrapAbsorbs ==
    [][(is_trapped(state) /\ ~is_trapped(state'))
          => op' \in {"rollback", "reset"}]_vars

\* C5 witness: a step taken while trapped, on a symbol the start state has a
\* transition for, left the engine trapped.
C5_Witness ==
    /\ Stepped
    /\ is_trapped(pre.state)
    /\ is_trapped(state)
    /\ TriplesFor(0, input) # {}
    /\ Len(previous_states) = 2

\* C6: in every reachable state is_accepted() is FALSE at Trap and, at Live(s),
\* TRUE iff s occurs in the accepting list given to M::new; the value a call of
\* is_accepted returned, and the value a call of next returned, is that value
\* for the position after the call.
C6_Acceptance ==
    LET expected == state.tag = "State" /\ Listed(state.s) IN
    /\ is_accepted(state, f) = expected
    /\ op = "is_accepted" => ret = expected
    /\ Stepped => ret = expected

\* C6 witness: a step trapped an engine whose accepting list names every state
\* of its automaton (the start state and every destination), and returned FALSE.
C6_Witness ==
    /\ Stepped
    /\ state = Trap
    /\ pre.state # Trap
    /\ flat_delta # <<>>
    /\ \A s \in {0} \cup {flat_delta[i][3] : i \in 1..Len(flat_delta)} : Listed(s)
    /\ ret = FALSE

\* C7: a call of is_accepted or is_trapped leaves the position, the stack, the
\* table and the accepting set as they were.
C7_QueriesPure ==
    [][op' \in {"is_accepted", "is_trapped"}
          => UNCHANGED <<delta, f, state, previous_states>>]_vars

\* C7 witness: is_accepted was called on a live accepting position with a
\* non-empty stack, which is still there.
C7_Witness ==
    /\ op = "is_accepted"
    /\ ret = TRUE
    /\ previous_states # <<>>
    /\ pre = Snapshot

\* C8: after M::reset the engine equals, field by field, the engine M::new
\* builds from the same two lists: position Live(0), empty stack, the table and
\* the accepting set as constructed. Every method reads and writes these four
\* fields only, so the two engines behave alike from then on, and a second
\* reset changes nothing.
C8_ResetIsFresh ==
    op = "reset" =>
        [delta |-> delta, f |-> f, state |-> state,
         previous_states |-> previous_states] = M_new(flat_delta, flat_f)

\* C8 witness: reset was called on a trapped engine with two stack entries.
C8_Witness ==
    /\ op = "reset"
    /\ pre.state = Trap
    /\ Len(pre.previous_states) >= 2
    /\ state = State(0)

\* C9: a call of M::next panics iff it is made at Live(s) and more than one
\* triple with key (s, input) was given; the panic assigns no destination; no
\* other call panics (construction included), and an ambiguous key that is not
\* the one looked up does not make a call fail.
C9_FailsIffAmbiguous ==
    /\ op = "next" =>
          (panicked <=> /\ pre.state.tag = "State"
                        /\ Cardinality(TriplesFor(pre.state.s, input)) > 1)
    /\ op # "next" => ~panicked
    /\ panicked => state = pre.state

\* C9 witness: a call of next panicked on a key given twice with the same
\* destination, in an engine that had been stepped and rolled back before.
C9_Witness ==
    /\ op = "next"
    /\ panicked
    /\ Len(flat_delta) = 2
    /\ flat_delta[1] = flat_delta[2]
    /\ n_rollback > 0
    /\ state = pre.state

\* C10: for a table with no ambiguous key, the second run over an input, begun
\* from the reset state, observes after each step the position, the returned
\* value and the stack that the first run observed after that step.
C10_Deterministic ==
    (WellFormed /\ det.run = "second") =>
        IF det.pos = 0
        THEN state = State(0) /\ previous_states = <<>>
        ELSE /\ op = "next"
             /\ ~panicked
             /\ Observed = det.trace[det.pos]

\* C10 witness: the second run has replayed a three-symbol input that moved the
\* engine and then trapped it.
C10_Witness ==
    /\ WellFormed
    /\ det.run = "second"
    /\ det.pos = 3
    /\ Len(det.tape) = 3
    /\ state = Trap
    /\ State(1) \in {previous_states[i] : i \in 1..Len(previous_states)}

\* The destinations of the triples of fd whose key is k, in list order.
RECURSIVE DestsOf(_, _)
DestsOf(fd, k) ==
    IF fd = <<>> THEN <<>>
    ELSE (IF <<Head(fd)[1], Head(fd)[2]>> = k THEN <<Head(fd)[3]>> ELSE <<>>)
             \o DestsOf(Tail(fd), k)

\* C18: the table holds exactly the keys of the triples given, and under each
\* key the destinations of all the triples with that key, in list order, none
\* overwritten and none dropped as a duplicate; so a step that looks up a key
\* given twice panics, also when both triples name the same destination. The
\* accepting set holds exactly the identifiers listed, however often each was.
C18_Grouping ==
    /\ DOMAIN delta
          = {<<flat_delta[i][1], flat_delta[i][2]>> : i \in 1..Len(flat_delta)}
    /\ \A k \in DOMAIN delta :
          /\ delta[k] = DestsOf(flat_delta, k)
          /\ Len(delta[k]) = Cardinality(TriplesFor(k[1], k[2]))
    /\ (op = "next" /\ pre.state.tag = "State"
            /\ \E i, j \in TriplesFor(pre.state.s, input) : i # j) => panicked
    /\ f = {s \in States : Listed(s)}

\* C18 witness: one triple listed twice and one accepting state listed twice;
\* the key holds the destination twice, the set holds the state once, and the
\* step that looked the key up panicked.
C18_Witness ==
    /\ Len(flat_delta) = 2
    /\ flat_delta[1] = flat_delta[2]
    /\ Len(flat_f) = 2
    /\ flat_f[1] = flat_f[2]
    /\ Cardinality(f) = 1
    /\ Len(delta[<<flat_delta[1][1], flat_delta[1][2]>>]) = 2
    /\ op = "next"
    /\ panicked

\* q can follow p in a run of the automaton given to M::new: some symbol takes
\* Live(s) to Live(d) by a triple, or to Trap for want of one; Trap stays.
Successor(p, q) ==
    \E c \in Symbols :
        IF p.tag = "Trap" THEN q = Trap
        ELSE IF TriplesFor(p.s, c) = {} THEN q = Trap
        ELSE \E i \in TriplesFor(p.s, c) : q = State(flat_delta[i][3])

\* C19: when no call of next has panicked, the stack followed by the position
\* is a run of the automaton from Live(0): it starts at Live(0), each entry is
\* a successor of the one before, nothing but Trap follows Trap, an empty stack
\* means the position is Live(0), and every Live(s) in it has s = 0 or s the
\* destination of some triple.
C19_StackIsARun ==
    LET run == Append(previous_states, state) IN
    /\ run[1] = State(0)
    /\ \A i \in 1..(Len(run) - 1) : Successor(run[i], run[i + 1])
    /\ \A i, j \in 1..Len(run) : (i < j /\ run[i] = Trap) => run[j] = Trap
    /\ previous_states = <<>> => state = State(0)
    /\ \A i \in 1..Len(run) :
          run[i].tag = "State" =>
              \/ run[i].s = 0
              \/ \E t \in 1..Len(flat_delta) : flat_delta[t][3] = run[i].s

\* C19 witness: a rollback out of a step taken while trapped: the stack is
\* Live(0), Live(1) and the position Trap.
C19_Witness ==
    /\ op = "rollback"
    /\ pre.state = Trap
    /\ state = Trap
    /\ previous_states = <<State(0), State(1)>>

\* C20: a call of next that panics leaves the position as it was and the stack
\* one entry longer, the new entry being that position; a rollback called next
\* pops the entry and leaves the position unchanged, so the stack is again the
\* one the failed call found.
C20_FailedStepNotAtomic ==
    [][/\ panicked' =>
            /\ op' = "next"
            /\ state' = state
            /\ previous_states' = Append(previous_states, state)
       /\ (panicked /\ op' = "rollback") =>
            /\ state' = state
            /\ previous_states' = pre.previous_states]_vars

\* C20 witness: in an engine whose only key is ambiguous, a rollback found the
\* stack holding Live(0) under the position Live(0), which only a panicked step
\* leaves, and popped it.
C20_Witness ==
    /\ Len(flat_delta) = 2
    /\ \A i \in 1..2 : flat_delta[i][1] = 0 /\ flat_delta[i][2] = flat_delta[1][2]
    /\ op = "rollback"
    /\ pre = [state |-> State(0), previous_states |-> <<State(0)>>]
    /\ state = State(0)
    /\ previous_states = <<>>

\* The extended transition function of the automaton the triples fd describe,
\* with -1 for the trap: the state reached from p over the string w.
Move(fd, p, c) ==
    IF p = -1 \/ ~\E n \in 1..Len(fd) : fd[n][1] = p /\ fd[n][2] = c
    THEN -1
    ELSE fd[CHOOSE n \in 1..Len(fd) : fd[n][1] = p /\ fd[n][2] = c][3]

RECURSIVE DeltaHat(_, _, _)
DeltaHat(fd, p, w) ==
    IF w = <<>> THEN p ELSE DeltaHat(fd, Move(fd, p, Head(w)), Tail(w))

\* w belongs to the language of the automaton (fd, ff).
InLanguage(fd, ff, w) == \E n \in 1..Len(ff) : ff[n] = DeltaHat(fd, 0, w)

\* C11: after eval_string has fed an input (or any prefix of it) to an engine
\* that was fresh or reset, is_accepted() is TRUE iff what was fed belongs to
\* the language of the automaton, and each value a test read at the end of an
\* input is that of the whole input. In basic_functionality "aaaaaab" is
\* accepted and "abb" is not, its second b trapping the engine from state 1;
\* in numeric_automata_test the three inputs are accepted one after another.
C11_LanguageAcceptance ==
    /\ ev.pc = "eval" =>
          E_is_accepted(ev.m)
              = InLanguage(ev.fd, ev.ff, SubSeq(ev.inputs[ev.i], 1, ev.j))
    /\ \A n \in 1..Len(ev.results) :
          ev.results[n] = InLanguage(ev.fd, ev.ff, ev.inputs[n])
    /\ (ev.test = "basic_functionality" /\ ev.pc = "done")
          => ev.results = <<TRUE, FALSE>>
    /\ (ev.test = "basic_functionality" /\ ev.i = 2 /\ ev.j = 3)
          => /\ ev.m.state = Trap
             /\ ev.m.previous_states = <<State(0), State(0), State(1)>>
    /\ (ev.test = "numeric_automata_test" /\ ev.pc = "done")
          => ev.results = <<TRUE, TRUE, TRUE>>

\* C11 witness: basic_functionality has run both its inputs.
C11_Witness ==
    /\ ev.test = "basic_functionality"
    /\ ev.pc = "done"
    /\ ev.results = <<TRUE, FALSE>>
    /\ ev.m.state = State(0)

\* Some engine of the list defs accepts the string w.
AcceptedBy(defs, w) ==
    \E i \in 1..Len(defs) : InLanguage(defs[i].fd, defs[i].ff, w)

\* The length of the longest non-empty prefix of s that some engine of defs
\* accepts, 0 when there is none.
LongestMatch(defs, s) ==
    LET ks == {k \in 1..Len(s) : AcceptedBy(defs, SubSeq(s, 1, k))} IN
    IF ks = {} THEN 0 ELSE CHOOSE k \in ks : \A j \in ks : j <= k

\* A call lex(s) has returned.
Returned == lex.pc = "return"

\* C12: the lexeme a call of the longest-match procedure returns is the longest
\* non-empty prefix of its input that at least one engine accepts, and it is
\* empty exactly when no engine accepts a non-empty prefix. The test rollback
\* (one engine {(0,a)->0, (0,b)->1}, accept {1}) gets "aaab" from "aaabb".
C12_LongestMatch ==
    Returned =>
        /\ lex.lexeme = SubSeq(lex.s, 1, LongestMatch(lex.defs, lex.s))
        /\ (lex.lexeme = <<>>)
              <=> ~\E k \in 1..Len(lex.s) : AcceptedBy(lex.defs, SubSeq(lex.s, 1, k))
        /\ lex.test = "rollback" => lex.lexeme = <<"a", "a", "a", "b">>

\* C12 witness: rollback has returned "aaab" after the forward loop read all of
\* "aaabb" and the rollback loop made two passes.
C12_Witness ==
    /\ Returned
    /\ lex.test = "rollback"
    /\ lex.n = 5
    /\ lex.passes = 2
    /\ lex.lexeme = <<"a", "a", "a", "b">>

\* C13: lex_two_types, which runs the IF engine ({(0,i)->1, (1,f)->2}, accept
\* {2}) and the ID engine ({(0,c)->1, (1,c)->1 : c in a..z}, accept {1}) through
\* the procedure on "ifa", ends with lexeme "ifa" and category ID.
C13_IfaIsAnId ==
    (lex.test = "lex_two_types" /\ Returned) =>
        /\ lex.lexeme = <<"i", "f", "a">>
        /\ lex.category = "ID"

\* C13 witness: lex_two_types has returned after its forward loop read the
\* three chars and its rollback loop made its one pass.
C13_Witness ==
    /\ lex.test = "lex_two_types"
    /\ Returned
    /\ lex.n = 3
    /\ lex.passes = 1
    /\ lex.category = "ID"

\* lex_two_types has left its forward loop, having fed the k-th char of "ifa"
\* last.
FedLast(k) == lex.test = "lex_two_types" /\ lex.pc = "decide" /\ lex.n = k

\* C14, as stated: after the third symbol of "ifa" has been fed to the IF and
\* the ID engine in lockstep, both engines are trapped.
C14_BothTrapped ==
    FedLast(3) => \A i \in 1..Len(lex.patterns) : E_is_trapped(lex.patterns[i])

\* C14, amended: after the third symbol of "ifa" has been fed to both engines,
\* the IF engine is trapped and the ID engine is not: it is at Live(1), accepted,
\* and both have a history of three states.
C14_OnlyIfTrapped ==
    FedLast(3) =>
        /\ E_is_trapped(lex.patterns[1])
        /\ ~E_is_accepted(lex.patterns[1])
        /\ lex.patterns[2].state = State(1)
        /\ ~E_is_trapped(lex.patterns[2])
        /\ E_is_accepted(lex.patterns[2])
        /\ lex.patterns[1].previous_states = <<State(0), State(1), State(2)>>
        /\ lex.patterns[2].previous_states = <<State(0), State(1), State(1)>>

\* C14 witness: the forward loop of lex_two_types has ended on the third char
\* with the IF engine at Trap.
C14_Witness ==
    /\ FedLast(3)
    /\ lex.patterns[1].state = Trap
    /\ lex.lexeme = <<"i", "f", "a">>

\* Every engine has as many states on its stack as the lexeme has chars.
InLockstep ==
    \A i \in 1..Len(lex.patterns) :
        Len(lex.patterns[i].previous_states) = Len(lex.lexeme)

\* C15, as stated: at the end of the forward loop, at the start of every pass
\* of the rollback loop and when the rollback loop exits, the stack of every
\* engine is as long as the lexeme.
C15_Lockstep ==
    /\ lex.pc \in {"decide", "rollback"} => InLockstep
    /\ (Returned /\ lex.was_accepted) => InLockstep

\* The index of the first engine of the call that accepts the string w.
FirstAccepting(w) ==
    CHOOSE i \in 1..Len(lex.defs) :
        /\ InLanguage(lex.defs[i].fd, lex.defs[i].ff, w)
        /\ \A j \in 1..(i - 1) : ~InLanguage(lex.defs[j].fd, lex.defs[j].ff, w)

\* C16, as stated: the category a call returns with a match is that of the
\* first-listed pattern among the engines that accept the returned lexeme.
C16_FirstListedWins ==
    (Returned /\ lex.category # lex.no_match) =>
        lex.category = lex.types[FirstAccepting(lex.lexeme)]

\* The caller has stopped: its call of lex has returned, or its loop over the
\* source has reached the end of the source or has panicked on NO_MATCH.
Stopped ==
    \/ lex.pc \in {"finished", "error"}
    \/ Returned /\ ~lex.driver

\* C17: with unambiguous engines and a finite input, the rollback loop is
\* entered only when some engine was accepted after a step, and it ends: it
\* makes fewer passes than chars were fed. A call that returns a category
\* other than NO_MATCH returns a non-empty lexeme, so the loop that advances
\* over the source by the length of the lexeme reaches the end of the source
\* or stops on NO_MATCH.
C17_Terminates ==
    /\ [](lex.pc = "rollback" =>
            /\ lex.was_accepted
            /\ lex.passes + Len(lex.lexeme) = lex.n
            /\ lex.passes < lex.n)
    /\ []((Returned /\ lex.category # lex.no_match) => lex.lexeme # <<>>)
    /\ (lex.pc = "rollback") ~> Returned
    /\ <>Stopped

\* C17 witness: the loop of simple_lexer has consumed the 36 chars of its source
\* in several calls, the last of which went through the rollback loop.
C17_Witness ==
    /\ lex.test = "simple_lexer"
    /\ lex.pc = "finished"
    /\ lex.last_lexed = 36
    /\ lex.calls > 2
    /\ lex.passes = 1

====
